---- MODULE Spec2Model ----
(***************************************************************************)
(* A model of src/persistent_list_map.rs: the persistent list map, a chain *)
(* of reference-counted nodes `Map(parent, entry) | Empty`.                *)
(*                                                                         *)
(* Memory is a sequence of cells.  A cell is either the allocation of an   *)
(* Rc<PersistentListMap> (rc = TRUE) or a PersistentListMap held by value  *)
(* in a variable of the caller (rc = FALSE).  The index of a cell is the   *)
(* identity of the node stored in it; a parent link (an Rc) is the index   *)
(* of an rc cell.  No operation of the file writes to an existing cell.    *)
(***************************************************************************)
EXTENDS Integers, Sequences, FiniteSets, TLC

\* ------------------------------------------------------------------ bounds
MaxCells == 6
MaxLen == 3
MaxEqLen == 2
MaxNextAfterEnd == 2

\* ------------------------------------------------------------- value domain
\* Value is an opaque type with value equality; Nil is Value::Nil.
Nil == "Nil"
Keys == {"a", "b"}
Vals == {Nil, "v1", "v2"}

\* MapEntry { key, val }
MapEntry(key, val) == [key |-> key, val |-> val]
Entries == {MapEntry(k, v) : k \in Keys, v \in Vals}

\* enum PersistentListMap { Map(Rc<PersistentListMap>, MapEntry), Empty }
Empty == [tag |-> "Empty"]
Map(parent, entry) == [tag |-> "Map", parent |-> parent, entry |-> entry]

\* A cell of memory: Rc::new(node) allocates an rc cell, a local holds a value.
RcCell(node) == [rc |-> TRUE, node |-> node]
ValCell(node) == [rc |-> FALSE, node |-> node]

RECURSIVE SeqsUpTo(_, _)
SeqsUpTo(S, n) ==
    IF n = 0 THEN {<<>>}
    ELSE LET shorter == SeqsUpTo(S, n - 1)
         IN  shorter \cup {Append(s, e) : s \in {t \in shorter : Len(t) = n - 1}, e \in S}

VARIABLES
    mem,      \* the cells allocated so far
    prov,     \* per cell: the call that created it (history)
    snap,     \* per cell: what get returned for every key when it was created (history)
    input,    \* the Vec<MapEntry> handed to the builder
    built,    \* the cell holding the builder's result (0: not built)
    acc,      \* the maps of the assoc fold over input, value API: acc[i+1] after i entries
    racc,     \* the same fold through the Rc API
    xs, ys,   \* two builder inputs whose results are compared
    cmp,      \* <<x, y, x == y>> once compared, <<>> before
    it,       \* the PersistentListMapIter struct: node, seen (node = 0: none)
    itSrc,    \* the cell iter() was called on (history)
    out,      \* the results of the next() calls so far, each an Option (history)
    visited   \* the number of Map nodes the iterator has visited (history)

vars == <<mem, prov, snap, input, built, acc, racc, xs, ys, cmp, it, itSrc, out, visited>>

\* ------------------------------------------------------------------ lookup
RECURSIVE RcGet(_, _, _)

\* impl IPersistentListMap for PersistentListMap :: get
GetInverted(m, self, key) ==
    IF self.tag = "Map"
    THEN IF self.entry.key # key THEN self.entry.val
         ELSE RcGet(m, self.parent, key)
    ELSE Nil

GetParentFirst(m, self, key) ==
    IF self.tag = "Map"
    THEN LET deeper == RcGet(m, self.parent, key)
         IN  IF deeper # Nil THEN deeper
             ELSE IF self.entry.key = key THEN self.entry.val ELSE Nil
    ELSE Nil

Get(m, self, key) ==
    IF self.tag = "Map"
    THEN IF self.entry.key = key THEN self.entry.val
         ELSE RcGet(m, self.parent, key)
    ELSE Nil

\* impl IPersistentListMap for Rc<PersistentListMap> :: get
RcGet(m, self, key) ==
    LET node == m[self].node
    IN  IF node.tag = "Map"
        THEN IF node.entry.key = key THEN node.entry.val
             ELSE RcGet(m, node.parent, key)
        ELSE Nil

\* get on whatever lives in cell c: the Rc impl for an rc cell, else the value impl
GetCell(m, c, key) ==
    IF m[c].rc THEN RcGet(m, c, key) ELSE Get(m, m[c].node, key)

GetAll(m, c) == [k \in Keys |-> GetCell(m, c, k)]

\* ------------------------------------------------------------------- chain
\* The entries of a chain, head first, down to Empty.
RECURSIVE RcChain(_, _)
RcChain(m, c) ==
    LET node == m[c].node
    IN  IF node.tag = "Map" THEN <<node.entry>> \o RcChain(m, node.parent) ELSE <<>>

Chain(m, c) ==
    LET node == m[c].node
    IN  IF node.tag = "Map" THEN <<node.entry>> \o RcChain(m, node.parent) ELSE <<>>

ChainKeys(m, c) ==
    LET es == Chain(m, c)
    IN  {es[i].key : i \in DOMAIN es}

\* The positions of key in a sequence of entries, and the entry nearest the head.
Positions(es, key) == {i \in DOMAIN es : es[i].key = key}
Nearest(es, key) ==
    LET at == Positions(es, key)
    IN  es[CHOOSE i \in at : \A j \in at : i <= j]

\* ------------------------------------------------------------------ insert
\* impl IPersistentListMap for PersistentListMap :: assoc, called on the value in
\* cell self: Rc::new(self.clone()) is a new rc cell holding a copy of the head
\* node, and the returned value (the last cell) has that cell as its parent.
AssocInPlace(m, self, key, val) ==
    LET old == m[self].node
        m1  == IF old.tag = "Map" /\ old.entry.key = key
               THEN [m EXCEPT ![self].node.entry.val = val]
               ELSE m
    IN  Append(Append(m1, RcCell(old)), ValCell(Map(Len(m) + 1, MapEntry(key, val))))

AssocSkipsNil(m, self, key, val) ==
    IF val = Nil
    THEN Append(Append(m, RcCell(m[self].node)), ValCell(m[self].node))
    ELSE Append(Append(m, RcCell(m[self].node)),
                ValCell(Map(Len(m) + 1, MapEntry(key, val))))

AssocDropsChain(m, self, key, val) ==
    Append(Append(m, RcCell(Empty)), ValCell(Map(Len(m) + 1, MapEntry(key, val))))

Assoc(m, self, key, val) ==
    Append(Append(m, RcCell(m[self].node)),
           ValCell(Map(Len(m) + 1, MapEntry(key, val))))

\* impl IPersistentListMap for Rc<PersistentListMap> :: assoc, called on the Rc
\* that is cell self: one new rc cell whose parent is Rc::clone(self).
RcAssocCopiesParent(m, self, key, val) ==
    Append(Append(m, RcCell(m[self].node)),
           RcCell(Map(Len(m) + 1, MapEntry(key, val))))

RcAssoc(m, self, key, val) ==
    Append(m, RcCell(Map(self, MapEntry(key, val))))

\* ----------------------------------------------------------------- builder
\* impl FromIterator<MapEntry> for PersistentListMap :: from_iter.  map_so_far is
\* a local; each round moves it into a new Rc and wraps that with the entry.  The
\* returned value is the last cell.
RECURSIVE FromIterLoop(_, _, _)
FromIterLoop(m, map_so_far, iter) ==
    IF iter = <<>> THEN Append(m, ValCell(map_so_far))
    ELSE FromIterLoop(Append(m, RcCell(map_so_far)),
                      Map(Len(m) + 1, Head(iter)),
                      Tail(iter))

RECURSIVE Reverse(_)
Reverse(s) == IF s = <<>> THEN <<>> ELSE Append(Reverse(Tail(s)), Head(s))

FromIterBackwards(m, iter) == FromIterLoop(m, Empty, Reverse(iter))

FromIter(m, iter) == FromIterLoop(m, Empty, iter)

\* impl From<Vec<MapEntry>> for PersistentListMap :: from
From(m, item) == FromIter(m, item)

\* ToPersistentListMap :: into_list_map
IntoListMap(m, item) == From(m, item)

\* ---------------------------------------------------------------- equality
\* #[derive(PartialEq)] on the enum: same variant and equal fields; the Rc field
\* compares the nodes it points to (Rc<T>: PartialEq compares **self == **other).
RECURSIVE RcEq(_, _, _)

EqByAddress(m, a, b) ==
    IF a.tag # b.tag THEN FALSE
    ELSE IF a.tag = "Map" THEN a.parent = b.parent /\ a.entry = b.entry
    ELSE TRUE

Eq(m, a, b) ==
    IF a.tag # b.tag THEN FALSE
    ELSE IF a.tag = "Map" THEN RcEq(m, a.parent, b.parent) /\ a.entry = b.entry
    ELSE TRUE

RcEq(m, a, b) == Eq(m, m[a].node, m[b].node)

\* ---------------------------------------------------------------- iterator
\* An Option<MapEntry>: <<>> is None, <<e>> is Some(e).
None == <<>>
Some(e) == <<e>>

\* impl Iterator for PersistentListMapIter :: next, the recursion included: the
\* iterator's fields after the call, the item returned, and the number of Map
\* nodes the call visited.
RECURSIVE NextFrom(_, _, _, _)
NextFrom(m, node, seen, n) ==
    LET cur == m[node].node
    IN  IF cur.tag = "Map"
        THEN IF cur.entry.key \in seen
             THEN NextFrom(m, cur.parent, seen, n + 1)
             ELSE [node |-> cur.parent, seen |-> seen \cup {cur.entry.key},
                   item |-> Some(cur.entry), visited |-> n + 1]
        ELSE [node |-> node, seen |-> seen, item |-> None, visited |-> n]

NextForgetsSeen(m, self) ==
    LET cur == m[self.node].node
    IN  IF cur.tag = "Map"
        THEN [node |-> cur.parent, seen |-> self.seen,
              item |-> Some(cur.entry), visited |-> 1]
        ELSE [node |-> self.node, seen |-> self.seen, item |-> None, visited |-> 0]

NextStopsAtSeen(m, self) ==
    LET cur == m[self.node].node
    IN  IF cur.tag = "Map"
        THEN IF cur.entry.key \in self.seen
             THEN [node |-> cur.parent, seen |-> self.seen,
                   item |-> None, visited |-> 1]
             ELSE [node |-> cur.parent, seen |-> self.seen \cup {cur.entry.key},
                   item |-> Some(cur.entry), visited |-> 1]
        ELSE [node |-> self.node, seen |-> self.seen, item |-> None, visited |-> 0]

IterNextCall(m, self) == NextFrom(m, self.node, self.seen, 0)

\* impl ToPersistentListMapIter for Rc<PersistentListMap> :: iter
RcIter(self) == [node |-> self, seen |-> {}]

\* impl ToPersistentListMapIter for PersistentListMap :: iter, on the value in
\* cell self: the memory with the new Rc::new(self.clone()), the last cell.
IterClone(m, self) == Append(m, RcCell(m[self].node))

\* ----------------------------------------------------------------- history
NoKey == "-"
Prov(op, src, key, val) == [op |-> op, src |-> src, key |-> key, val |-> val]

\* The cells of m2 beyond mem are new: the last one is the result of the call
\* `op`, any before it are the clones the call allocated on the way.
Allocate(m2, op, src, key, val) ==
    /\ mem' = m2
    /\ prov' = [c \in 1..Len(m2) |->
                  IF c <= Len(mem) THEN prov[c]
                  ELSE IF c = Len(m2) THEN Prov(op, src, key, val)
                  ELSE Prov("clone", src, NoKey, Nil)]
    /\ snap' = [c \in 1..Len(m2) |->
                  IF c <= Len(mem) THEN snap[c] ELSE GetAll(m2, c)]

\* let empty = PersistentListMap::Empty
InitMem ==
    /\ mem = <<ValCell(Empty)>>
    /\ prov = <<Prov("init", 0, NoKey, Nil)>>
    /\ snap = <<[k \in Keys |-> Nil]>>

NoBuild == input = <<>> /\ built = 0 /\ acc = <<>> /\ racc = <<>>
NoCompare == xs = <<>> /\ ys = <<>> /\ cmp = <<>>
NoIter == it = [node |-> 0, seen |-> {}] /\ itSrc = 0 /\ out = <<>> /\ visited = 0

buildVars == <<input, built, acc, racc>>
cmpVars == <<xs, ys, cmp>>
iterVars == <<it, itSrc, out, visited>>

\* ----------------------------------------------------------------- actions
\* let m2 = m.assoc(key, val), m a PersistentListMap reached by reference
AssocOwned(c, key, val) ==
    /\ Len(Assoc(mem, c, key, val)) <= MaxCells
    /\ Allocate(Assoc(mem, c, key, val), "assoc", c, key, val)
    /\ UNCHANGED <<buildVars, cmpVars, iterVars>>

\* let m2 = m.assoc(key, val), m an Rc<PersistentListMap>
AssocRc(c, key, val) ==
    /\ mem[c].rc
    /\ Len(RcAssoc(mem, c, key, val)) <= MaxCells
    /\ Allocate(RcAssoc(mem, c, key, val), "rcassoc", c, key, val)
    /\ UNCHANGED <<buildVars, cmpVars, iterVars>>

Init == InitMem /\ NoBuild /\ NoCompare /\ NoIter

Next ==
    \/ \E c \in DOMAIN mem, k \in Keys, v \in Vals : AssocOwned(c, k, v)
    \/ \E c \in DOMAIN mem, k \in Keys, v \in Vals : AssocRc(c, k, v)

Spec == Init /\ [][Next]_vars

\* ------------------------------------------------- build, fold, then iterate
\* A caller that builds a map from `input`, folds the same entries with assoc
\* from the empty map through both APIs, and then iterates over one of its maps.
Last(s) == s[Len(s)]
Range(s) == {s[i] : i \in DOMAIN s}
Handles == ({1, built} \cup Range(acc) \cup Range(racc)) \ {0}
FoldsDone == Len(acc) = Len(input) + 1 /\ Len(racc) = Len(input) + 1

\* input.into_iter().collect::<PersistentListMap>()
Collect ==
    /\ built = 0
    /\ Allocate(FromIter(mem, input), "build", 0, NoKey, Nil)
    /\ built' = Len(mem')
    /\ UNCHANGED <<input, acc, racc, cmpVars, iterVars>>

\* input.into_list_map()
IntoMap ==
    /\ built = 0
    /\ Allocate(IntoListMap(mem, input), "build", 0, NoKey, Nil)
    /\ built' = Len(mem')
    /\ UNCHANGED <<input, acc, racc, cmpVars, iterVars>>

\* map = map.assoc(e.key, e.val) for the next entry e of input, value API
FoldAssoc ==
    /\ built # 0 /\ Len(acc) <= Len(input)
    /\ LET e == input[Len(acc)]
       IN  Allocate(Assoc(mem, Last(acc), e.key, e.val), "assoc", Last(acc), e.key, e.val)
    /\ acc' = Append(acc, Len(mem'))
    /\ UNCHANGED <<input, built, racc, cmpVars, iterVars>>

\* let rmap = Rc::new(PersistentListMap::Empty)
FoldRcStart ==
    /\ Len(acc) = Len(input) + 1 /\ racc = <<>>
    /\ Allocate(Append(mem, RcCell(Empty)), "init", 0, NoKey, Nil)
    /\ racc' = <<Len(mem')>>
    /\ UNCHANGED <<input, built, acc, cmpVars, iterVars>>

\* rmap = rmap.assoc(e.key, e.val) for the next entry e of input, Rc API
FoldRcAssoc ==
    /\ racc # <<>> /\ Len(racc) <= Len(input)
    /\ LET e == input[Len(racc)]
       IN  Allocate(RcAssoc(mem, Last(racc), e.key, e.val), "rcassoc", Last(racc), e.key, e.val)
    /\ racc' = Append(racc, Len(mem'))
    /\ UNCHANGED <<input, built, acc, cmpVars, iterVars>>

\* let it = m.iter(), m a PersistentListMap
IterOwned(c) ==
    /\ FoldsDone /\ it.node = 0
    /\ ~mem[c].rc
    /\ Allocate(IterClone(mem, c), "clone", c, NoKey, Nil)
    /\ it' = RcIter(Len(mem'))
    /\ itSrc' = c
    /\ UNCHANGED <<buildVars, cmpVars, out, visited>>

\* let it = m.iter(), m an Rc<PersistentListMap>
IterRc(c) ==
    /\ FoldsDone /\ it.node = 0
    /\ mem[c].rc
    /\ it' = RcIter(c)
    /\ itSrc' = c
    /\ UNCHANGED <<mem, prov, snap, buildVars, cmpVars, out, visited>>

Nones(s) == Cardinality({i \in DOMAIN s : s[i] = None})

\* it.next()
IterNext ==
    /\ it.node # 0
    /\ Nones(out) < MaxNextAfterEnd
    /\ LET r == IterNextCall(mem, it)
       IN  /\ it' = [node |-> r.node, seen |-> r.seen]
           /\ out' = Append(out, r.item)
           /\ visited' = visited + r.visited
    /\ UNCHANGED <<mem, prov, snap, buildVars, cmpVars, itSrc>>

InitBuild ==
    /\ InitMem /\ NoCompare /\ NoIter
    /\ input \in SeqsUpTo(Entries, MaxLen)
    /\ built = 0 /\ acc = <<1>> /\ racc = <<>>

NextBuild ==
    \/ Collect
    \/ IntoMap
    \/ FoldAssoc
    \/ FoldRcStart
    \/ FoldRcAssoc
    \/ \E c \in Handles : IterOwned(c)
    \/ \E c \in Handles : IterRc(c)
    \/ IterNext

SpecBuild == InitBuild /\ [][NextBuild]_vars

\* --------------------------------------------------------- build and compare
\* A caller that builds x from xs and y from ys and evaluates x == y.
BuildX ==
    /\ cmp = <<>>
    /\ Allocate(FromIter(mem, xs), "build", 0, NoKey, Nil)
    /\ cmp' = <<Len(mem')>>
    /\ UNCHANGED <<xs, ys, buildVars, iterVars>>

BuildY ==
    /\ Len(cmp) = 1
    /\ Allocate(FromIter(mem, ys), "build", 0, NoKey, Nil)
    /\ cmp' = Append(cmp, Len(mem'))
    /\ UNCHANGED <<xs, ys, buildVars, iterVars>>

Compare ==
    /\ Len(cmp) = 2
    /\ cmp' = Append(cmp, Eq(mem, mem[cmp[1]].node, mem[cmp[2]].node))
    /\ UNCHANGED <<mem, prov, snap, xs, ys, buildVars, iterVars>>

InitEq ==
    /\ InitMem /\ NoBuild /\ NoIter
    /\ xs \in SeqsUpTo(Entries, MaxEqLen)
    /\ ys \in SeqsUpTo(Entries, MaxEqLen)
    /\ cmp = <<>>

NextEq == BuildX \/ BuildY \/ Compare

SpecEq == InitEq /\ [][NextEq]_vars

\* ================================================================== claims
AssocOps == {"assoc", "rcassoc"}
Cells == DOMAIN mem
AssocCells == {c \in Cells : prov[c].op \in AssocOps}

\* C1: assoc is non-destructive: every map version, whenever it was created,
\* still answers get for every key exactly as it did at its creation, whatever
\* assoc calls have been made since on it or on its descendants.
C1_NonDestructive ==
    \A c \in Cells : GetAll(mem, c) = snap[c]

\* A version c was given a new value for a key (d), and d was extended again (e).
C1_Witness ==
    \E c, d, e \in Cells :
        /\ d \in AssocCells /\ prov[d].src = c
        /\ e \in AssocCells /\ prov[e].src = d
        /\ prov[d].val # snap[c][prov[d].key]
        /\ GetCell(mem, d, prov[d].key) # GetCell(mem, c, prov[d].key)

\* C2: most recent wins: after assoc(assoc(m, k, v1), k, v2) get of k is v2, and
\* in general get returns the value of the entry with that key nearest the head.
C2_MostRecentWins ==
    \A c \in Cells :
        /\ (/\ c \in AssocCells
            /\ prov[c].src \in AssocCells
            /\ prov[prov[c].src].key = prov[c].key)
           => GetCell(mem, c, prov[c].key) = prov[c].val
        /\ LET es == Chain(mem, c)
           IN  \A k \in Keys :
                   Positions(es, k) # {} => GetCell(mem, c, k) = Nearest(es, k).val

\* A key was overwritten: v1 then a different v2, neither of them Nil.
C2_Witness ==
    \E c \in AssocCells :
        /\ prov[c].src \in AssocCells
        /\ prov[prov[c].src].key = prov[c].key
        /\ prov[prov[c].src].val \notin {Nil, prov[c].val}
        /\ prov[c].val # Nil

C6_AbsentIsNil ==
    \A c \in Cells : \A k \in Keys :
        /\ mem[c].node = Empty => GetCell(mem, c, k) = Nil
        /\ k \notin ChainKeys(mem, c) => GetCell(mem, c, k) = Nil

\* A value map and an Rc map, each holding one key with a value and not the other.
C6_Witness ==
    \A rc \in BOOLEAN : \E c \in Cells : \E k1, k2 \in Keys :
        /\ mem[c].rc = rc
        /\ ChainKeys(mem, c) = {k1} /\ k2 # k1
        /\ GetCell(mem, c, k1) # Nil
        /\ GetCell(mem, c, k2) = Nil

\* C8: the map assoc(m, k, v) returns maps k to v and every other key to what m
\* maps it to.
C8_AssocVisible ==
    \A c \in AssocCells :
        /\ GetCell(mem, c, prov[c].key) = prov[c].val
        /\ \A k \in Keys \ {prov[c].key} :
               GetCell(mem, c, k) = GetCell(mem, prov[c].src, k)

\* As in the test: m1 holds a and b, m3 = assoc(m1, a, another value).
C8_Witness ==
    \E c \in AssocCells : \E k \in Keys \ {prov[c].key} :
        /\ GetCell(mem, prov[c].src, prov[c].key) \notin {Nil, prov[c].val}
        /\ GetCell(mem, prov[c].src, k) # Nil
        /\ prov[c].val # Nil

\* ------------------------------------------------------ iteration and build
\* The entries the next() calls have returned so far, in order.
Yielded ==
    LET some == SelectSeq(out, LAMBDA o : o # None)
    IN  [i \in DOMAIN some |-> some[i][1]]
Exhausted == \E i \in DOMAIN out : out[i] = None
Iterating == it.node # 0

\* The entries of es that no earlier entry shadows, in the order of es.
VisibleIdx(es) == {i \in DOMAIN es : \A j \in 1..(i - 1) : es[j].key # es[i].key}
Visible(es) ==
    LET idx == VisibleIdx(es)
    IN  [n \in 1..Cardinality(idx) |->
            es[CHOOSE i \in idx : Cardinality({j \in idx : j <= i}) = n]]
IsPrefix(s, t) == Len(s) <= Len(t) /\ \A i \in DOMAIN s : s[i] = t[i]

\* C4: a fresh iterator never yields a key twice, and run to exhaustion it has
\* yielded, for every key that get finds (not Nil), exactly one entry with that
\* key, carrying the value get returns.
C4_IterationComplete ==
    Iterating =>
        LET ys_ == Yielded
        IN  /\ \A i, j \in DOMAIN ys_ : ys_[i].key = ys_[j].key => i = j
            /\ Exhausted =>
                 \A k \in Keys :
                     GetCell(mem, itSrc, k) # Nil =>
                        /\ Cardinality({i \in DOMAIN ys_ : ys_[i].key = k}) = 1
                        /\ \A i \in DOMAIN ys_ :
                               ys_[i].key = k => ys_[i].val = GetCell(mem, itSrc, k)

\* An iterator ran to the end of a chain that holds both keys, one of them
\* shadowed by a later insertion of a different value.
C4_Witness ==
    /\ Iterating /\ Exhausted
    /\ \A k \in Keys : GetCell(mem, itSrc, k) # Nil
    /\ \E i, j \in DOMAIN Chain(mem, itSrc) :
          /\ i < j
          /\ Chain(mem, itSrc)[i].key = Chain(mem, itSrc)[j].key
          /\ Chain(mem, itSrc)[i].val # Chain(mem, itSrc)[j].val

\* C5: the builder's map answers get for every key as the map made by assoc,
\* entry by entry in input order from the empty map, does (through either API):
\* the value of the last entry of the input with that key, Nil if there is none.
C5_BuilderIsAssocFold ==
    (built # 0 /\ FoldsDone) =>
        /\ GetAll(mem, built) = GetAll(mem, Last(acc))
        /\ GetAll(mem, built) = GetAll(mem, Last(racc))
        /\ \A k \in Keys :
              LET at == {i \in DOMAIN input : input[i].key = k}
              IN  GetCell(mem, built, k) =
                     IF at = {} THEN Nil
                     ELSE input[CHOOSE i \in at : \A j \in at : j <= i].val

\* A three-entry input in which a later entry overwrites an earlier one, built
\* and folded.
C5_Witness ==
    /\ built # 0 /\ FoldsDone /\ Len(input) = MaxLen
    /\ \E i, j \in DOMAIN input :
          /\ i < j /\ input[i].key = input[j].key
          /\ input[i].val # Nil /\ input[j].val \notin {Nil, input[i].val}
          /\ GetCell(mem, built, input[j].key) = input[j].val
    /\ \E k \in Keys : GetCell(mem, Last(acc), k) # GetCell(mem, 1, k)

\* C7: x == y (the derived PartialEq) holds exactly when the two chains hold the
\* same entries in the same order down to Empty, shadowed entries included, so
\* exactly when they were built from the same sequence; equal maps answer get
\* alike, but maps that answer get alike need not be equal.
C7_StructuralEquality ==
    Len(cmp) = 3 =>
        /\ cmp[3] <=> Chain(mem, cmp[1]) = Chain(mem, cmp[2])
        /\ cmp[3] <=> xs = ys
        /\ cmp[3] => GetAll(mem, cmp[1]) = GetAll(mem, cmp[2])

\* x = build([(a,v1),(a,v2)]) and y = build([(a,v2)]): same get, not equal.
C7_Witness ==
    /\ Len(cmp) = 3
    /\ xs = <<MapEntry("a", "v1"), MapEntry("a", "v2")>>
    /\ ys = <<MapEntry("a", "v2")>>
    /\ GetAll(mem, cmp[1]) = GetAll(mem, cmp[2])
    /\ GetCell(mem, cmp[1], "a") = "v2"
    /\ cmp[3] = FALSE

\* C9: the iterator yields the unshadowed entries of the chain in head-to-tail
\* order; it visits at most as many nodes as the chain has; the call after the
\* last of them returns None; and after a None every later call returns None.
C9_OrderAndTermination ==
    Iterating =>
        LET vis == Visible(Chain(mem, itSrc))
        IN  /\ IsPrefix(Yielded, vis)
            /\ Exhausted => Yielded = vis
            /\ visited <= Len(Chain(mem, itSrc))
            /\ Len(out) > Len(vis) => out[Len(vis) + 1] = None
            /\ \A i, j \in DOMAIN out : (i < j /\ out[i] = None) => out[j] = None

\* next() returned None twice after a chain of MaxLen nodes with a shadowed entry
\* between two visible ones.
C9_Witness ==
    /\ Iterating /\ Nones(out) = 2
    /\ Len(Chain(mem, itSrc)) = MaxLen
    /\ Len(Yielded) = 2
    /\ Chain(mem, itSrc)[1].key = Chain(mem, itSrc)[2].key
    /\ visited = MaxLen

\* C10: get returns Nil exactly when the key is in no entry of the chain or the
\* entry nearest the head stores Nil; get of k on assoc(m, k, Nil) is what get of
\* k on the empty map is; and an iterator run over assoc(m, k, Nil) to the end has
\* yielded the entry (k, Nil).
C10_NilIsAmbiguous ==
    /\ \A c \in Cells :
          LET es == Chain(mem, c)
          IN  \A k \in Keys :
                  GetCell(mem, c, k) = Nil <=>
                     \/ Positions(es, k) = {}
                     \/ Nearest(es, k).val = Nil
    /\ \A c \in AssocCells :
          prov[c].val = Nil =>
             /\ GetCell(mem, c, prov[c].key) = GetCell(mem, 1, prov[c].key)
             /\ (Iterating /\ itSrc = c /\ Exhausted) =>
                    \E i \in DOMAIN out : out[i] = Some(MapEntry(prov[c].key, Nil))

\* Both APIs stored Nil over a key that had a value; an iterator ran over such a
\* map to the end.
C10_Witness ==
    /\ \A op \in AssocOps : \E c \in AssocCells :
          /\ prov[c].op = op /\ prov[c].val = Nil
          /\ GetCell(mem, prov[c].src, prov[c].key) # Nil
    /\ Iterating /\ Exhausted
    /\ itSrc \in AssocCells /\ prov[itSrc].val = Nil
    /\ GetCell(mem, prov[itSrc].src, prov[itSrc].key) # Nil
    /\ Some(MapEntry(prov[itSrc].key, Nil)) \in Range(out)

====
